---- MODULE Spec2Model ----
(***************************************************************************)
(* normalizeBullets of src/ats-resume-converter/src/App.jsx as a state     *)
(* machine.  A string is a sequence of characters; a character is a        *)
(* one-element name ("a", " ", "*", "U2022" for the glyph U+2022, ...).    *)
(***************************************************************************)
EXTENDS Integers, Sequences, FiniteSets, TLC

\* ------------------------------------------------------------ characters

NL == "\n"
Star == "*"

\* the glyph class of bulletRegex without the asterisk itself
BulletGlyphs ==
  {"U2022", "U2023", "U25E6", "U2043", "U2219", "U25CF", "U25CB", "U25A0"}

\* the character class of bulletRegex: the eight glyphs and the asterisk
bulletRegex == BulletGlyphs \cup {Star}

\* JavaScript white space (\s, String.prototype.trim) within the alphabet used
WhiteSpace == {" ", "\t", NL, "\r"}

\* the regular expression "." matches everything but a line terminator
Dot(c) == c \notin {NL, "\r"}

Digit(c) == c \in {"0", "1", "2", "3", "4", "5", "6", "7", "8", "9"}

UpperCase ==
  <<"A", "B", "C", "D", "E", "F", "G", "H", "I", "J", "K", "L", "M",
    "N", "O", "P", "Q", "R", "S", "T", "U", "V", "W", "X", "Y", "Z">>

LowerCase ==
  <<"a", "b", "c", "d", "e", "f", "g", "h", "i", "j", "k", "l", "m",
    "n", "o", "p", "q", "r", "s", "t", "u", "v", "w", "x", "y", "z">>

\* String.prototype.toLowerCase, one character
LowerChar(c) ==
  IF \E n \in 1..26 : UpperCase[n] = c
    THEN LowerCase[CHOOSE n \in 1..26 : UpperCase[n] = c]
    ELSE c

\* String.prototype.toLowerCase
toLowerCase(s) == [n \in 1..Len(s) |-> LowerChar(s[n])]

\* ------------------------------------------------------------ string helpers

\* the pattern pat occurs in s at position p (1-based)
MatchAt(s, p, pat) ==
  /\ p >= 1
  /\ p + Len(pat) - 1 <= Len(s)
  /\ SubSeq(s, p, p + Len(pat) - 1) = pat

\* String.prototype.startsWith
startsWith(s, pat) == MatchAt(s, 1, pat)

\* length of the white-space run of s that starts at position p: \s*
RECURSIVE WsRun(_, _)
WsRun(s, p) ==
  IF p <= Len(s) /\ s[p] \in WhiteSpace THEN 1 + WsRun(s, p + 1) ELSE 0

\* length of the white-space run of s that ends at position p
RECURSIVE WsRunBack(_, _)
WsRunBack(s, p) ==
  IF p >= 1 /\ s[p] \in WhiteSpace THEN 1 + WsRunBack(s, p - 1) ELSE 0

\* String.prototype.trim
trim(s) ==
  LET a == WsRun(s, 1)
  IN  IF a = Len(s) THEN <<>>
      ELSE SubSeq(s, a + 1, Len(s) - WsRunBack(s, Len(s)))

\* the substitution without the g flag: only the first match is replaced
ReplaceBullets_First(text) ==
  [n \in 1..Len(text) |->
     IF text[n] \in bulletRegex /\ \A q \in 1..(n - 1) : text[q] \notin bulletRegex
       THEN Star ELSE text[n]]

\* text.replace(bulletRegex, "*"): every character of the class becomes "*"
ReplaceBullets(text) ==
  [n \in 1..Len(text) |-> IF text[n] \in bulletRegex THEN Star ELSE text[n]]

\* String.prototype.split("\n"): the pieces between the line feeds
SplitLines(s) ==
  LET nls == {p \in 1..Len(s) : s[p] = NL}
      \* the position of line feed number n; 0 and Len(s) + 1 bracket the text
      nl(n) == IF n = 0 THEN 0
               ELSE IF n > Cardinality(nls) THEN Len(s) + 1
               ELSE CHOOSE p \in nls : Cardinality({q \in nls : q < p}) = n - 1
  IN  [n \in 1..(Cardinality(nls) + 1) |-> SubSeq(s, nl(n - 1) + 1, nl(n) - 1)]

\* Array.prototype.join("\n")
RECURSIVE join(_)
join(arr) ==
  IF arr = <<>> THEN <<>>
  ELSE IF Len(arr) = 1 THEN arr[1]
  ELSE arr[1] \o <<NL>> \o join(Tail(arr))

\* ------------------------------------------------------------ literals

SkillsStr == <<"S", "k", "i", "l", "l", "s">>
ExperienceStr == <<"E", "x", "p", "e", "r", "i", "e", "n", "c", "e">>
LicensesStr ==
  <<"L", "i", "c", "e", "n", "s", "e", "s", " ", "&", " ",
    "C", "e", "r", "t", "i", "f", "i", "c", "a", "t", "i", "o", "n", "s">>
EducationStr == <<"E", "d", "u", "c", "a", "t", "i", "o", "n">>
HonorsStr ==
  <<"H", "o", "n", "o", "r", "s", " ", "&", " ", "A", "w", "a", "r", "d", "s">>
PresentStr == <<"P", "r", "e", "s", "e", "n", "t">>
SalesStr == <<"S", "a", "l", "e", "s">>
StrategicPlanningStr ==
  <<"S", "t", "r", "a", "t", "e", "g", "i", "c", " ",
    "P", "l", "a", "n", "n", "i", "n", "g">>
FinanceAcumenStr ==
  <<"F", "i", "n", "a", "n", "c", "e", " ", "A", "c", "u", "m", "e", "n">>

\* the dictionary of canonical phrases
skillPhrases ==
  << StrategicPlanningStr,
     FinanceAcumenStr,
     <<"M", "a", "r", "k", "e", "t", " ", "R", "e", "s", "e", "a", "r", "c", "h">>,
     <<"D", "a", "t", "a", " ", "M", "a", "n", "a", "g", "e", "m", "e", "n", "t",
       " ", "&", " ", "A", "n", "a", "l", "y", "s", "i", "s">>,
     SalesStr,
     <<"N", "e", "g", "o", "t", "i", "a", "t", "i", "o", "n">>,
     <<"R", "e", "l", "a", "t", "i", "o", "n", "s", "h", "i", "p", " ",
       "B", "u", "i", "l", "d", "i", "n", "g">>,
     <<"N", "e", "t", "w", "o", "r", "k", "i", "n", "g">>,
     <<"P", "r", "o", "j", "e", "c", "t", " ",
       "M", "a", "n", "a", "g", "e", "m", "e", "n", "t">>,
     <<"C", "o", "m", "m", "u", "n", "i", "c", "a", "t", "i", "o", "n">> >>

\* ------------------------------------------------------------ line classification

\* line.match(/^(Skills|Experience|Licenses & Certifications)$/)
IsCategoryHeading(line) == line \in {SkillsStr, ExperienceStr, LicensesStr}

\* some occurrence of Present that only "." characters precede: .*Present.*
ContainsPresent(line) ==
  \E p \in 1..Len(line) :
    /\ MatchAt(line, p, PresentStr)
    /\ \A q \in 1..(p - 1) : Dot(line[q])

\* .*\d{4}$
EndsInYear(line) ==
  /\ Len(line) >= 4
  /\ \A q \in (Len(line) - 3)..Len(line) : Digit(line[q])
  /\ \A q \in 1..(Len(line) - 4) : Dot(line[q])

\* the pattern without its year alternative
IsTerminator_NoYear(line) ==
  \/ startsWith(line, EducationStr)
  \/ startsWith(line, HonorsStr)
  \/ ContainsPresent(line)

\* line.match(/^(Education|Honors & Awards|.*Present.*|.*\d{4}$)/): the end
\* anchor belongs to the last alternative only
IsTerminator(line) ==
  \/ startsWith(line, EducationStr)
  \/ startsWith(line, HonorsStr)
  \/ ContainsPresent(line)
  \/ EndsInYear(line)

\* the flags after the conditional assignment of a category heading:
\*   isListSection = line === "Skills" ? (isSkillsSection = true)
\*                                     : (isListSection = true, isSkillsSection = false)
\* the outer assignment stores the value of the chosen branch: true for
\* Skills, and the value of the comma expression, false, otherwise
HeadingFlags(line) ==
  IF line = SkillsStr
    THEN [isListSection |-> TRUE, isSkillsSection |-> TRUE]
    ELSE [isListSection |-> FALSE, isSkillsSection |-> FALSE]

\* ------------------------------------------------------------ bullets

\* length of the match of /^\s*\*\s*/ in line, 0 when it does not match
LeadBulletLen(line) ==
  LET w == WsRun(line, 1)
  IN  IF w + 1 <= Len(line) /\ line[w + 1] = Star
        THEN w + 1 + WsRun(line, w + 2)
        ELSE 0

\* line.match(/^\s*\*/)
HasLeadBullet(line) == LeadBulletLen(line) > 0

\* the replacement with the pattern /^\s*\*/: the white space after the
\* bullet stays
ReplaceLeadBullet_KeepSpace(line, repl) ==
  LET w == WsRun(line, 1)
  IN  IF w + 1 <= Len(line) /\ line[w + 1] = Star
        THEN repl \o SubSeq(line, w + 2, Len(line))
        ELSE line

\* the replacement with the pattern /^(\s*\*\s*)+/: every leading bullet goes
RECURSIVE ReplaceLeadBullet_All(_, _)
ReplaceLeadBullet_All(line, repl) ==
  LET m == LeadBulletLen(line)
  IN  IF m = 0 THEN line
      ELSE repl \o ReplaceLeadBullet_All(SubSeq(line, m + 1, Len(line)), <<>>)

\* line.replace(/^\s*\*\s*/, repl)
ReplaceLeadBullet(line, repl) ==
  LET m == LeadBulletLen(line)
  IN  IF m = 0 THEN line ELSE repl \o SubSeq(line, m + 1, Len(line))

\* `* ${item}`
BulletPrefix(item) == <<Star, " ">> \o item

\* ------------------------------------------------------------ skill fragments

\* length of the match of /\*\s*|\s*,\s*/ at position q of s, 0 when none
SepLen(s, q) ==
  IF s[q] = Star THEN 1 + WsRun(s, q + 1)
  ELSE LET w == WsRun(s, q)
       IN  IF q + w <= Len(s) /\ s[q + w] = ","
             THEN w + 1 + WsRun(s, q + w + 1)
             ELSE 0

\* line.split(/\*\s*|\s*,\s*/): t is the string, p starts the current piece,
\* q is the scan position, m the length of the separator found at q
SplitSep(s) ==
  LET scan[t \in {s}, q \in 1..(Len(s) + 1), p \in 1..(Len(s) + 1)] ==
        IF q > Len(t) THEN <<SubSeq(t, p, Len(t))>>
        ELSE IF \E m \in {SepLen(t, q)} : m = 0 THEN scan[t, q + 1, p]
        ELSE CHOOSE r \in {<<SubSeq(t, p, q - 1)>> \o scan[t, q + m, q + m] :
                             m \in {SepLen(t, q)}} : TRUE
  IN  scan[s, 1, 1]

\* the filter without its second test: the ampersand stays
FilterItems_KeepAmpersand(arr) ==
  SelectSeq(arr, LAMBDA item : item # <<>>)

\* .filter((item) => item && item !== "&")
FilterItems(arr) ==
  SelectSeq(arr, LAMBDA item : item # <<>> /\ item # <<"&">>)

\* line.split(...).map((item) => item.trim()).filter(...)
SkillItems(line) ==
  LET pieces == SplitSep(line)
  IN  FilterItems([n \in 1..Len(pieces) |-> trim(pieces[n])])

\* skillPhrases.some((phrase) => phrase.toLowerCase() === currentSkill.toLowerCase())
IsPhrase(cur) ==
  \E n \in 1..Len(skillPhrases) : toLowerCase(skillPhrases[n]) = toLowerCase(cur)

\* the start of a phrase without the space: any prefix counts, not a whole word
IsPhrasePrefix_AnyPrefix(cur) ==
  \E n \in 1..Len(skillPhrases) :
    startsWith(toLowerCase(skillPhrases[n]), toLowerCase(cur))

\* skillPhrases.some((phrase) =>
\*   phrase.toLowerCase().startsWith(currentSkill.toLowerCase() + " "))
IsPhrasePrefix(cur) ==
  \E n \in 1..Len(skillPhrases) :
    startsWith(toLowerCase(skillPhrases[n]), toLowerCase(cur) \o <<" ">>)

\* currentSkill += item: the fragments are glued without the space
Accumulate_NoSpace(cur, item) == cur \o item

\* currentSkill += (currentSkill ? " " : "") + item
Accumulate(cur, item) ==
  cur \o (IF cur # <<>> THEN <<" ">> ELSE <<>>) \o item

\* ------------------------------------------------------------ inputs

\* the longest input, in lines, that is enumerated in full
MaxLines == 3

\* the number of calls of normalizeBullets in one run
MaxCalls == 2

ItemOneStr == <<"I", "t", "e", "m", " ", "o", "n", "e">>
ItemTwoStr == <<"I", "t", "e", "m", " ", "t", "w", "o">>
ObjectiveStr ==
  <<"O", "b", "j", "e", "c", "t", "i", "v", "e", " ",
    "s", "t", "a", "t", "e", "m", "e", "n", "t">>
DegreeStr ==
  <<"B", "S", " ", "C", "o", "m", "p", "u", "t", "e", "r", " ",
    "S", "c", "i", "e", "n", "c", "e", " ", "2", "0", "2", "0">>
Comma == <<",", " ">>

BulletSales == <<Star, " ">> \o SalesStr
GlyphSales == <<"U25A0", " ">> \o SalesStr
GlyphItemOne == <<"U2022", " ">> \o ItemOneStr
GlyphItemTwo == <<"U25CF", " ">> \o ItemTwoStr
TwoSkills == StrategicPlanningStr \o Comma \o FinanceAcumenStr
DoubleBullet == <<Star, " ", Star, " ", "a">>
EducationHistory ==
  EducationStr \o <<" ", "h", "i", "s", "t", "o", "r", "y">> \o Comma \o <<Star, " ", "x">>
SalesYear == BulletSales \o Comma \o <<"2", "0", "2", "0">>
SinceSales ==
  <<"2", "0", "1", "9", " ", "-", " ">> \o PresentStr \o Comma \o BulletSales
SkillsSummary == SkillsStr \o <<" ", "s", "u", "m", "m", "a", "r", "y">>
LooseBullet == <<" ", "\t", Star, " ", " ">> \o SalesStr \o <<" ">>
SplitPhrase ==
  <<"S", "t", "r", "a", "t", "e", "g", "i", "c">> \o Comma
    \o <<"P", "l", "a", "n", "n", "i", "n", "g">> \o Comma \o SalesStr
AmpersandLine ==
  <<"D", "a", "t", "a">> \o Comma
    \o <<"M", "a", "n", "a", "g", "e", "m", "e", "n", "t">> \o Comma
    \o <<"&">> \o Comma \o <<"A", "n", "a", "l", "y", "s", "i", "s">>
    \o Comma \o SalesStr

AmpersandTight ==
  <<Star, "D", "a", "t", "a", ",">>
    \o <<"M", "a", "n", "a", "g", "e", "m", "e", "n", "t", " ", ",", "&", ",">>
    \o <<"A", "n", "a", "l", "y", "s", "i", "s", " ", ",", " ", " ">> \o SalesStr
AllGlyphs ==
  <<"U2022", "U2023", "U25E6", "U2043", "U2219", "U25CF", "U25CB", "U25A0">>
MidGlyph == SalesStr \o <<" ", "U2219", " ", "x", "U2043", "y">>
SaleSales == <<"S", "a", "l", "e">> \o Comma \o SalesStr
LowerPhrase ==
  <<"s", "t", "r", "a", "t", "e", "g", "i", "c">> \o Comma
    \o <<"P", "L", "A", "N", "N", "I", "N", "G">> \o Comma
    \o <<"Z", "e", "t", "a">> \o Comma \o <<"F", "i", "n", "a", "n", "c", "e">>

\* the lines every input of up to MaxLines lines is built from
Catalogue ==
  {<<>>, SkillsStr, ExperienceStr, GlyphSales, TwoSkills, SalesYear}

\* longer or rarer inputs, line by line
Examples ==
  { <<ExperienceStr>>,
    <<ExperienceStr, GlyphItemOne, GlyphItemTwo>>,
    <<ExperienceStr, <<>>, BulletSales, ItemOneStr>>,
    <<ExperienceStr, GlyphSales, SalesYear, GlyphSales>>,
    <<SkillsStr, ExperienceStr, GlyphSales, TwoSkills>>,
    <<ExperienceStr, SkillsStr, TwoSkills, GlyphSales>>,
    <<LicensesStr, SkillsStr, BulletSales>>,
    <<LicensesStr, GlyphItemOne, ItemTwoStr>>,
    <<SkillsStr, BulletSales>>,
    <<BulletSales, <<>>, BulletSales>>,
    <<EducationHistory>>,
    <<SkillsStr, EducationHistory, TwoSkills>>,
    <<ExperienceStr, EducationHistory, BulletSales>>,
    <<SkillsStr, TwoSkills, EducationStr, DegreeStr>>,
    <<<<Star, " ">> \o ObjectiveStr>>,
    <<<<Star, " ">> \o SkillsStr>>,
    <<DoubleBullet>>,
    <<ExperienceStr, DoubleBullet, EducationStr, DoubleBullet>>,
    <<SkillsStr, DoubleBullet, EducationStr>>,
    <<SkillsStr, SkillsSummary>>,
    <<SkillsStr, SinceSales, BulletSales>>,
    <<HonorsStr, LooseBullet>>,
    <<SkillsStr, LooseBullet, HonorsStr, LooseBullet>>,
    <<SkillsStr, SplitPhrase>>,
    <<SkillsStr, AmpersandLine>>,
    <<SkillsStr, AmpersandTight>>,
    <<SkillsStr, SaleSales, LowerPhrase>>,
    <<AllGlyphs, MidGlyph>>,
    <<SkillsStr, MidGlyph, GlyphItemOne>>,
    <<<<Star, " ">> \o EducationStr \o <<" ", "x">>, BulletSales>>,
    <<<<Star>>, <<Star, Star>>>>,
    <<SkillsStr, <<Star, ",", " ", Star>>, <<" ", "\t">>>> }

LineSeqs == UNION {[1..m -> Catalogue] : m \in 1..MaxLines}

\* the texts normalizeBullets is first called with
Inputs == {join(ls) : ls \in LineSeqs \cup Examples}

\* ------------------------------------------------------------ state

VARIABLES
  pc,               \* "idle": no call is running; "loop": at the head of the
                    \* line loop; "skill": inside the fragment loop
  text,             \* the argument of the running (or last) call
  lines,            \* lines
  i,                \* the line loop's index, counted from 0
  isListSection,
  isSkillsSection,
  result,
  items,            \* the fragments of the current Skills line
  k,                \* the position of the fragment loop in items, from 1
  currentSkill,
  normalizedItems,
  logged,           \* the line numbers console.log was called with
  hist,             \* the finished calls, [in, out], oldest first
  file,             \* the component's state: the selected file or NoFile
  error,            \* the pieces the error message is concatenated from
  plainText,
  isProcessing,
  isMounted,        \* isMounted.current
  jobs,             \* the calls of handleConvert that wait at an await or
                    \* run normalizeBullets, [file, stage], oldest first
  last              \* the handler or continuation that ran last

\* the variables of a call of normalizeBullets
normVars ==
  <<pc, text, lines, i, isListSection, isSkillsSection, result, items, k,
    currentSkill, normalizedItems, logged, hist>>

\* the variables of the component
uiVars == <<file, error, plainText, isProcessing, isMounted, jobs, last>>

vars == <<normVars, uiVars>>

\* useState(null)
NoFile == "null"

Init ==
  /\ pc = "idle"
  /\ text = <<>>
  /\ lines = <<>>
  /\ i = 0
  /\ isListSection = FALSE
  /\ isSkillsSection = FALSE
  /\ result = <<>>
  /\ items = <<>>
  /\ k = 1
  /\ currentSkill = <<>>
  /\ normalizedItems = <<>>
  /\ logged = <<>>
  /\ hist = <<>>
  /\ file = NoFile
  /\ error = <<>>
  /\ plainText = <<>>
  /\ isProcessing = FALSE
  /\ isMounted = TRUE
  /\ jobs = <<>>
  /\ last = "mount"

\* let line = lines[i].trim()
line == trim(lines[i + 1])

\* the loop stands at a line: i < lines.length
AtLine == pc = "loop" /\ i < Len(lines)

\* i++ of the line loop
NextIndex(n) == n + 1

\* the Skills branch is taken for the line: isSkillsSection and items.length > 1
TakesSkills(l) == isSkillsSection /\ Len(SkillItems(l)) > 1

\* ------------------------------------------------------------ actions

\* a call whose flags are not locals: they keep what the last call left
Call_KeepsFlags(t) ==
  /\ pc = "idle"
  /\ Len(hist) < MaxCalls
  /\ pc' = "loop"
  /\ text' = t
  /\ lines' = SplitLines(ReplaceBullets(t))
  /\ i' = 0
  /\ result' = <<>>
  /\ logged' = <<>>
  /\ UNCHANGED <<isListSection, isSkillsSection, items, k, currentSkill,
                 normalizedItems, hist>>

\* a call of normalizeBullets(t): the substitution, the split and the locals
Call(t) ==
  /\ pc = "idle"
  /\ Len(hist) < MaxCalls
  /\ pc' = "loop"
  /\ text' = t
  /\ lines' = SplitLines(ReplaceBullets(t))
  /\ i' = 0
  /\ isListSection' = FALSE
  /\ isSkillsSection' = FALSE
  /\ result' = <<>>
  /\ logged' = <<>>
  /\ UNCHANGED <<items, k, currentSkill, normalizedItems, hist>>

\* the text t written with an asterisk in the place of every bullet glyph
WithStars(t) ==
  [n \in 1..Len(t) |-> IF t[n] \in BulletGlyphs THEN Star ELSE t[n]]

\* the first call is given any input; a later one the previous call's
\* output, to run the function on its own result, or its input once more,
\* written with asterisks where it had glyphs
CallAny ==
  \E t \in (IF hist = <<>> THEN Inputs
            ELSE {hist[Len(hist)].out, WithStars(hist[Len(hist)].in)}) :
    Call(t) /\ UNCHANGED uiVars

\* a category heading: Skills, Experience, Licenses & Certifications
LineHeading ==
  /\ AtLine
  /\ IsCategoryHeading(line)
  /\ isListSection' = HeadingFlags(line).isListSection
  /\ isSkillsSection' = HeadingFlags(line).isSkillsSection
  /\ result' = result \o <<line, <<>>>>
  /\ i' = NextIndex(i)
  /\ UNCHANGED <<pc, text, lines, items, k, currentSkill, normalizedItems,
                 logged, hist>>
  /\ UNCHANGED uiVars

\* a terminator: Education, Honors & Awards, a year, Present
LineTerminator ==
  /\ AtLine
  /\ ~IsCategoryHeading(line)
  /\ IsTerminator(line)
  /\ isListSection' = FALSE
  /\ isSkillsSection' = FALSE
  /\ result' = Append(result, line)
  /\ i' = NextIndex(i)
  /\ UNCHANGED <<pc, text, lines, items, k, currentSkill, normalizedItems,
                 logged, hist>>
  /\ UNCHANGED uiVars

\* a Skills line of more than one fragment: the fragment loop starts
SkillsBegin ==
  /\ AtLine
  /\ ~IsCategoryHeading(line)
  /\ ~IsTerminator(line)
  /\ TakesSkills(line)
  /\ pc' = "skill"
  /\ items' = SkillItems(line)
  /\ k' = 1
  /\ currentSkill' = <<>>
  /\ normalizedItems' = <<>>
  /\ UNCHANGED <<text, lines, i, isListSection, isSkillsSection, result,
                 logged, hist>>
  /\ UNCHANGED uiVars

\* one round of for (let item of items)
SkillItem ==
  /\ pc = "skill"
  /\ k <= Len(items)
  /\ LET cur == Accumulate(currentSkill, items[k])
     IN  IF IsPhrase(cur) \/ ~IsPhrasePrefix(cur)
           THEN /\ normalizedItems' = Append(normalizedItems, cur)
                /\ currentSkill' = <<>>
           ELSE /\ normalizedItems' = normalizedItems
                /\ currentSkill' = cur
  /\ k' = k + 1
  /\ UNCHANGED <<pc, text, lines, i, isListSection, isSkillsSection, result,
                 items, logged, hist>>
  /\ UNCHANGED uiVars

\* after the fragment loop: the last flush, the push of the phrases, continue
SkillsEmit ==
  /\ pc = "skill"
  /\ k > Len(items)
  /\ LET all == IF currentSkill # <<>>
                  THEN Append(normalizedItems, currentSkill)
                  ELSE normalizedItems
     IN  /\ normalizedItems' = all
         /\ result' = result \o [n \in 1..Len(all) |-> BulletPrefix(all[n])]
  /\ pc' = "loop"
  /\ i' = NextIndex(i)
  /\ UNCHANGED <<text, lines, isListSection, isSkillsSection, items, k,
                 currentSkill, logged, hist>>
  /\ UNCHANGED uiVars

\* the list branch with an empty line skipped: nothing is pushed for it
LineList_SkipsBlank ==
  /\ AtLine
  /\ ~IsCategoryHeading(line)
  /\ ~IsTerminator(line)
  /\ ~TakesSkills(line)
  /\ isListSection
  /\ IF HasLeadBullet(line)
       THEN LET normalized == ReplaceLeadBullet(line, <<Star, " ">>)
            IN  /\ logged' = IF normalized = line
                               THEN Append(logged, i + 1) ELSE logged
                /\ result' = Append(result, normalized)
       ELSE /\ logged' = logged
            /\ result' = IF line = <<>> THEN result ELSE Append(result, line)
  /\ i' = NextIndex(i)
  /\ UNCHANGED <<pc, text, lines, isListSection, isSkillsSection, items, k,
                 currentSkill, normalizedItems, hist>>
  /\ UNCHANGED uiVars

\* the list branch: a line with a leading bullet is collapsed, any other is kept
LineList ==
  /\ AtLine
  /\ ~IsCategoryHeading(line)
  /\ ~IsTerminator(line)
  /\ ~TakesSkills(line)
  /\ isListSection
  /\ IF HasLeadBullet(line)
       THEN LET normalized == ReplaceLeadBullet(line, <<Star, " ">>)
            IN  /\ logged' = IF normalized = line
                               THEN Append(logged, i + 1) ELSE logged
                /\ result' = Append(result, normalized)
       ELSE /\ logged' = logged
            /\ result' = Append(result, line)
  /\ i' = NextIndex(i)
  /\ UNCHANGED <<pc, text, lines, isListSection, isSkillsSection, items, k,
                 currentSkill, normalizedItems, hist>>
  /\ UNCHANGED uiVars

\* the last statement failing on an empty line: the call never returns
LineGeneric_Throws ==
  /\ AtLine
  /\ ~IsCategoryHeading(line)
  /\ ~IsTerminator(line)
  /\ ~TakesSkills(line)
  /\ ~isListSection
  /\ line # <<>>
  /\ result' = Append(result, ReplaceLeadBullet(line, <<>>))
  /\ i' = NextIndex(i)
  /\ UNCHANGED <<pc, text, lines, isListSection, isSkillsSection, items, k,
                 currentSkill, normalizedItems, logged, hist>>
  /\ UNCHANGED uiVars

\* the last statement of the loop body: one leading bullet is removed
LineGeneric ==
  /\ AtLine
  /\ ~IsCategoryHeading(line)
  /\ ~IsTerminator(line)
  /\ ~TakesSkills(line)
  /\ ~isListSection
  /\ result' = Append(result, ReplaceLeadBullet(line, <<>>))
  /\ i' = NextIndex(i)
  /\ UNCHANGED <<pc, text, lines, isListSection, isSkillsSection, items, k,
                 currentSkill, normalizedItems, logged, hist>>
  /\ UNCHANGED uiVars

\* return result.join("\n")
Return ==
  /\ pc = "loop"
  /\ i >= Len(lines)
  /\ pc' = "idle"
  /\ hist' = Append(hist, [in |-> text, out |-> join(result)])
  /\ UNCHANGED <<text, lines, i, isListSection, isSkillsSection, result,
                 items, k, currentSkill, normalizedItems, logged>>
  /\ UNCHANGED uiVars

Next ==
  \/ CallAny
  \/ LineHeading
  \/ LineTerminator
  \/ SkillsBegin
  \/ SkillItem
  \/ SkillsEmit
  \/ LineList
  \/ LineGeneric
  \/ Return

Spec == Init /\ [][Next]_vars

\* a step of a running call
Step ==
  \/ LineHeading
  \/ LineTerminator
  \/ SkillsBegin
  \/ SkillItem
  \/ SkillsEmit
  \/ LineList
  \/ LineGeneric
  \/ Return

\* the function is synchronous: once called it runs on until it returns;
\* whether it is called again is up to the caller
FairSpec == Spec /\ WF_vars(Step)

\* ------------------------------------------------------------ the component

\* supportedTypes
supportedTypes ==
  {"application/pdf", "application/msword",
   "application/vnd.openxmlformats-officedocument.wordprocessingml.document"}

\* the files the user can pick
CvPdf == "cv.pdf"
CvDocx == "cv.docx"
NotesTxt == "notes.txt"
Files == {CvPdf, CvDocx, NotesTxt}

\* selectedFile.type
FileType(f) ==
  IF f = CvPdf THEN "application/pdf"
  ELSE IF f = CvDocx
    THEN "application/vnd.openxmlformats-officedocument.wordprocessingml.document"
  ELSE "text/plain"

\* the text items of the pages of cv.pdf: str and the height transform[5]
PdfPages ==
  << << [str |-> SkillsStr, y |-> 700],
        [str |-> GlyphSales \o <<",">>, y |-> 680],
        [str |-> skillPhrases[8], y |-> 679] >> >>

\* the raw text of cv.docx
DocxValue == join(<<ExperienceStr, BulletSales, EducationStr, DegreeStr>>)

\* the messages of what the awaited calls can throw
Messages == {"read failed", "Cannot read properties of undefined"}

\* the inner loop over textContent.items: a line feed when the height moves
\* by more than 3, then item.str and a space
PageText(pageItems) ==
  LET pageText[n \in 0..Len(pageItems)] ==
        IF n = 0 THEN <<>>
        ELSE pageText[n - 1]
               \o (IF n > 1 /\ ( \/ pageItems[n].y - pageItems[n - 1].y > 3
                                 \/ pageItems[n - 1].y - pageItems[n].y > 3 )
                     THEN <<NL>> ELSE <<>>)
               \o pageItems[n].str \o <<" ">>
  IN  pageText[Len(pageItems)]

\* the loop over the pages: extractedText += pageText + "\n\n"
ExtractPdf(pages) ==
  LET extractedText[p \in 0..Len(pages)] ==
        IF p = 0 THEN <<>>
        ELSE extractedText[p - 1] \o PageText(pages[p]) \o <<NL, NL>>
  IN  extractedText[Len(pages)]

\* value.replace(/^(Education|Experience|Skills|Licenses & Certifications|
\* Honors & Awards)$/gm, "$1\n"): a line feed more after a heading line
ExtractDocx(value) ==
  LET ls == SplitLines(value)
  IN  join([n \in 1..Len(ls) |->
              IF ls[n] \in {EducationStr, ExperienceStr, SkillsStr, LicensesStr,
                            HonorsStr}
                THEN ls[n] \o <<NL>> ELSE ls[n]])

\* extractedText of the file f when nothing throws
ExtractedText(f) ==
  IF FileType(f) = "application/pdf" THEN ExtractPdf(PdfPages)
  ELSE ExtractDocx(DocxValue)

\* no JavaScript runs: the next event or continuation can be taken
Quiet ==
  /\ pc = "idle"
  /\ \A n \in 1..Len(jobs) : jobs[n].stage # "normalize"

\* the file input takes input whatever isProcessing is
InputEnabled_Always == TRUE

\* <input ... disabled={isProcessing}>
InputEnabled == ~isProcessing

\* <button onClick={handleConvert} disabled={isProcessing}>
ConvertEnabled == ~isProcessing

\* jobs without the entry n
Without(n) == [m \in 1..(Len(jobs) - 1) |-> IF m < n THEN jobs[m] ELSE jobs[m + 1]]

\* the state set in the catch block
Catch(message) ==
  [error |-> <<"File conversion failed: ", message>>, plainText |-> <<>>]

\* the reset of isProcessing at the end of the try block only
Finally_TryOnly(thrown) ==
  IF isMounted /\ ~thrown THEN FALSE ELSE isProcessing

\* finally { if (isMounted.current) setIsProcessing(false) }, the value of
\* isProcessing after it, thrown or not
Finally(thrown) ==
  IF isMounted THEN FALSE ELSE isProcessing

\* handleFileChange with the file f picked
handleFileChange(f) ==
  /\ Quiet
  /\ isMounted
  /\ InputEnabled
  /\ IF FileType(f) \in supportedTypes
       THEN /\ file' = f
            /\ error' = <<>>
            /\ plainText' = <<>>
       ELSE /\ file' = NoFile
            /\ error' = <<"Please upload a PDF or Word (.doc, .docx) file.">>
            /\ plainText' = <<>>
  /\ last' = "handleFileChange"
  /\ UNCHANGED <<isProcessing, isMounted, jobs>>
  /\ UNCHANGED normVars

\* handleConvert with no file: the first statement returns
ConvertNoFile ==
  /\ Quiet
  /\ isMounted
  /\ ConvertEnabled
  /\ file = NoFile
  /\ error' = <<"Please select a file to convert.">>
  /\ last' = "handleConvert"
  /\ UNCHANGED <<file, plainText, isProcessing, isMounted, jobs>>
  /\ UNCHANGED normVars

\* handleConvert with a file, up to await readFileAsync(file)
ConvertStart ==
  /\ Quiet
  /\ isMounted
  /\ ConvertEnabled
  /\ file # NoFile
  /\ Len(hist) + Len(jobs) < MaxCalls
  /\ isProcessing' = TRUE
  /\ error' = <<>>
  /\ jobs' = Append(jobs, [file |-> file, stage |-> "read"])
  /\ last' = "handleConvert"
  /\ UNCHANGED <<file, plainText, isMounted>>
  /\ UNCHANGED normVars

\* reader.onload: on to the await of the library
ReadDone(n) ==
  /\ Quiet
  /\ jobs[n].stage = "read"
  /\ jobs' = [jobs EXCEPT ![n].stage = "load"]
  /\ last' = "resume"
  /\ UNCHANGED <<file, error, plainText, isProcessing, isMounted>>
  /\ UNCHANGED normVars

\* the PDF library is there: on to the awaits of the document and its pages
Loaded(n) ==
  /\ Quiet
  /\ jobs[n].stage = "load"
  /\ FileType(jobs[n].file) = "application/pdf"
  /\ jobs' = [jobs EXCEPT ![n].stage = "extract"]
  /\ last' = "resume"
  /\ UNCHANGED <<file, error, plainText, isProcessing, isMounted>>
  /\ UNCHANGED normVars

\* the last page's text is there: normalizeBullets(extractedText) is called
ExtractedPdf(n) ==
  /\ Quiet
  /\ jobs[n].stage = "extract"
  /\ \E t \in {ExtractPdf(PdfPages)} : Call(t)
  /\ jobs' = [jobs EXCEPT ![n].stage = "normalize"]
  /\ last' = "resume"
  /\ UNCHANGED <<file, error, plainText, isProcessing, isMounted>>

\* the Word library is there: the raw text, then normalizeBullets(extractedText)
ExtractedDocx(n) ==
  /\ Quiet
  /\ jobs[n].stage = "load"
  /\ FileType(jobs[n].file) # "application/pdf"
  /\ \E t \in {ExtractDocx(DocxValue)} : Call(t)
  /\ jobs' = [jobs EXCEPT ![n].stage = "normalize"]
  /\ last' = "resume"
  /\ UNCHANGED <<file, error, plainText, isProcessing, isMounted>>

\* normalizeBullets has returned: setPlainText, then the finally block
Stored(n) ==
  /\ pc = "idle"
  /\ jobs[n].stage = "normalize"
  /\ plainText' = IF isMounted THEN hist[Len(hist)].out ELSE plainText
  /\ isProcessing' = Finally(FALSE)
  /\ jobs' = Without(n)
  /\ last' = "resume"
  /\ UNCHANGED <<file, error, isMounted>>
  /\ UNCHANGED normVars

\* an awaited call rejects or the statement after it throws: the catch
\* block, then the finally block
Thrown(n, message) ==
  /\ Quiet
  /\ error' = IF isMounted THEN Catch(message).error ELSE error
  /\ plainText' = IF isMounted THEN Catch(message).plainText ELSE plainText
  /\ isProcessing' = Finally(TRUE)
  /\ jobs' = Without(n)
  /\ last' = "resume"
  /\ UNCHANGED <<file, isMounted>>
  /\ UNCHANGED normVars

\* the cleanup of the effect: isMounted.current = false
Unmount ==
  /\ Quiet
  /\ isMounted
  /\ isMounted' = FALSE
  /\ last' = "unmount"
  /\ UNCHANGED <<file, error, plainText, isProcessing, jobs>>
  /\ UNCHANGED normVars

\* a call of handleConvert goes on after an await
Settle ==
  \E n \in 1..Len(jobs) :
    \/ ReadDone(n)
    \/ Loaded(n)
    \/ ExtractedPdf(n)
    \/ ExtractedDocx(n)
    \/ Stored(n)
    \/ \E message \in Messages : Thrown(n, message)

UINext ==
  \/ \E f \in Files : handleFileChange(f)
  \/ ConvertNoFile
  \/ ConvertStart
  \/ \E n \in 1..Len(jobs) : ReadDone(n)
  \/ \E n \in 1..Len(jobs) : Loaded(n)
  \/ \E n \in 1..Len(jobs) : ExtractedPdf(n)
  \/ \E n \in 1..Len(jobs) : ExtractedDocx(n)
  \/ \E n \in 1..Len(jobs) : Stored(n)
  \/ \E n \in 1..Len(jobs), message \in Messages : Thrown(n, message)
  \/ Step
  \/ Unmount

\* the component from its first render on
UISpec == Init /\ [][UINext]_vars

\* normalizeBullets runs on until it returns; the file reader and the
\* libraries settle what is awaited, one way or the other
UIFairSpec == UISpec /\ WF_vars(Step) /\ WF_vars(Settle)

\* ------------------------------------------------------------ the documented reading

\* the section mode the two flags stand for; the Skills branch is tested first
Mode ==
  IF isSkillsSection THEN "SkillsSection"
  ELSE IF isListSection THEN "ListSection"
  ELSE "Neutral"

\* the same of the flags after the step
ModeNext ==
  IF isSkillsSection' THEN "SkillsSection"
  ELSE IF isListSection' THEN "ListSection"
  ELSE "Neutral"

\* a terminator as documented: Education or Honors & Awards exactly, a line
\* that ends in a 4-digit year, a line that contains Present
DocTerminator(l) ==
  \/ l \in {EducationStr, HonorsStr}
  \/ Len(l) >= 4 /\ \A q \in (Len(l) - 3)..Len(l) : Digit(l[q])
  \/ \E p \in 1..Len(l) : MatchAt(l, p, PresentStr)

\* a section marker as documented
DocMarker(l) == l \in {SkillsStr, ExperienceStr, LicensesStr} \/ DocTerminator(l)

\* line number n (from 1) of the running call, trimmed
LineAt(n) == trim(lines[n])

\* line number n follows a heading of hs with no section marker in between
Under(n, hs) ==
  \E h \in 1..(n - 1) :
    /\ LineAt(h) \in hs
    /\ \A j \in (h + 1)..(n - 1) : ~DocMarker(LineAt(j))

\* what follows the leading bullet of l and the white space after it
AfterBullet(l) == SubSeq(l, 2 + WsRun(l, 2), Len(l))

\* the output of the finished calls that were given the text t
OutputsFor(t) == {hist[n].out : n \in {m \in 1..Len(hist) : hist[m].in = t}}

\* ------------------------------------------------------------ claims

\* C1: at every point of a call the section mode is one of Neutral,
\* ListSection, SkillsSection: isListSection and isSkillsSection are never
\* both true.
C1_FlagsExclusive == ~(isListSection /\ isSkillsSection)

\* C2: a line that is exactly Skills leaves the mode SkillsSection, a line that
\* is exactly Experience or Licenses & Certifications leaves it ListSection
\* (list flag set, skills flag clear), whatever the mode was; the heading is
\* emitted followed by exactly one empty line.
C2_HeadingSetsMode ==
  [][ (AtLine /\ IsCategoryHeading(line)) =>
        /\ line = SkillsStr => ModeNext = "SkillsSection"
        /\ line # SkillsStr => isListSection' /\ ~isSkillsSection'
        /\ result' = result \o <<line, <<>>>> ]_vars

\* C3: a line that follows an Experience or Licenses & Certifications heading,
\* before the next section marker, and begins with a bullet is emitted as the
\* bullet "* " followed by the item text; the lines "U+2022 Item one" and
\* "U+25CF Item two" under Experience come out as "* Item one", "* Item two".
C3_ListBulletCanonical ==
  [][ ( /\ AtLine
        /\ ~DocMarker(line)
        /\ Under(i + 1, {ExperienceStr, LicensesStr})
        /\ startsWith(line, <<Star>>) ) =>
        result' = Append(result, <<Star, " ">> \o AfterBullet(line)) ]_vars

\* the trimmed line l with one leading bullet and the white space after it removed
StripOne(l) == IF startsWith(l, <<Star>>) THEN AfterBullet(l) ELSE l

\* C4: in SkillsSection mode a non-marker line of more than one fragment is
\* replaced by the matcher's phrases, one output line each, prefixed "* ", in
\* order; the input Skills / Strategic Planning, Finance Acumen / Education /
\* BS Computer Science 2020 yields Skills, an empty line, * Strategic Planning,
\* * Finance Acumen, Education, BS Computer Science 2020.
C4_Input == join(<<SkillsStr, TwoSkills, EducationStr, DegreeStr>>)

C4_Output ==
  join(<< SkillsStr, <<>>, <<Star, " ">> \o StrategicPlanningStr,
          <<Star, " ">> \o FinanceAcumenStr, EducationStr, DegreeStr >>)

C4_SkillsPhrases ==
  /\ [][ ( /\ AtLine
           /\ Mode = "SkillsSection"
           /\ ~DocMarker(line)
           /\ Len(SkillItems(line)) > 1 ) =>
           /\ pc' = "skill"
           /\ items' = SkillItems(line)
           /\ result' = result /\ i' = i ]_vars
  /\ [][ (pc = "skill" /\ pc' = "loop") =>
           /\ i' = i + 1
           /\ Len(result') = Len(result) + Len(normalizedItems')
           /\ SubSeq(result', 1, Len(result)) = result
           /\ \A n \in 1..Len(normalizedItems') :
                result'[Len(result) + n] = <<Star, " ">> \o normalizedItems'[n] ]_vars
  /\ [](OutputsFor(C4_Input) \subseteq {C4_Output})

\* C5: in SkillsSection mode a non-marker line of zero or one fragment takes the
\* generic rule: a single leading bullet and the white space after it are
\* removed and the rest is emitted, so "* Sales" under Skills comes out as "Sales".
C5_SkillsSingleStripped ==
  [][ ( /\ AtLine
        /\ Mode = "SkillsSection"
        /\ ~DocMarker(line)
        /\ Len(SkillItems(line)) <= 1 ) =>
        result' = Append(result, StripOne(line)) ]_vars

\* ------------------------------------------------------------ idempotence

\* the lines of the text t, trimmed
TrimmedLines(t) ==
  LET ls == SplitLines(t) IN {trim(ls[n]) : n \in 1..Len(ls)}

\* the only bullet marker of the trimmed line l, if any, is one leading "* "
CanonicalBullet(l) ==
  /\ \A n \in 1..Len(l) : l[n] \notin BulletGlyphs
  /\ \/ \A n \in 1..Len(l) : l[n] # Star
     \/ /\ startsWith(l, <<Star, " ">>)
        /\ \A n \in 2..Len(l) : l[n] # Star

\* t has no section-marker line and no bullet marker but the canonical one
PlainCanonical(t) ==
  \A l \in TrimmedLines(t) : ~DocMarker(l) /\ CanonicalBullet(l)

\* t has no Skills section
NoSkillsSection(t) == SkillsStr \notin TrimmedLines(t)

\* no bulleted line of t carries a category heading as its text
NoBulletedHeading(t) ==
  \A l \in TrimmedLines(t) : ~IsCategoryHeading(StripOne(l))

\* call n + 1 was given the output of call n
Rerun(n) == n + 1 <= Len(hist) /\ hist[n + 1].in = hist[n].out

\* C6 as claimed: normalize(normalize(t)) = normalize(t) for every t with no
\* section-marker line whose only bullet marker is the canonical "* ", and
\* for every t with no Skills section.
C6_Idempotent ==
  \A n \in 1..Len(hist) :
    (Rerun(n) /\ (PlainCanonical(hist[n].in) \/ NoSkillsSection(hist[n].in)))
      => hist[n + 1].out = hist[n].out

\* C6 as amended: normalize(normalize(t)) = normalize(t) for every t with no
\* section-marker line whose only bullet marker is the canonical "* ", at
\* most one per line and leading, and in which no bulleted line's text is
\* itself exactly Skills, Experience or Licenses & Certifications.
C6_IdempotentPlain ==
  \A n \in 1..Len(hist) :
    (Rerun(n) /\ PlainCanonical(hist[n].in) /\ NoBulletedHeading(hist[n].in))
      => hist[n + 1].out = hist[n].out

C6_Witness ==
  \E n \in 1..Len(hist) :
    /\ Rerun(n)
    /\ PlainCanonical(hist[n].in)
    /\ NoBulletedHeading(hist[n].in)
    /\ \E l \in TrimmedLines(hist[n].in) : startsWith(l, <<Star, " ">>)
    /\ hist[n].out # hist[n].in
    /\ hist[n + 1].out = hist[n].out

\* ------------------------------------------------------------ neutral mode, markers

\* C7: in Neutral mode, also before any section marker, a non-marker line has
\* exactly one leading bullet and the white space after it removed and the
\* rest emitted; a line without a leading bullet is emitted unchanged;
\* normalize("* Objective statement") is "Objective statement".
C7_Input == <<Star, " ">> \o ObjectiveStr

C7_NeutralStrip ==
  /\ [][ (AtLine /\ Mode = "Neutral" /\ ~DocMarker(line)) =>
           /\ result' = Append(result, StripOne(line))
           /\ i' = i + 1 ]_vars
  /\ [](OutputsFor(C7_Input) \subseteq {ObjectiveStr})

C7_Witness ==
  /\ pc = "idle"
  /\ \E n \in 1..Len(hist) : hist[n].in = C7_Input /\ hist[n].out = ObjectiveStr

\* C8: a line is a section marker only if its trimmed content is exactly one
\* of the five headings, ends in a 4-digit year or contains Present; any
\* other line leaves the mode unchanged and is handled by the current
\* mode's rule.
C8_OnlyExactMarkers ==
  [][ (AtLine /\ ~DocMarker(line)) =>
        /\ isListSection' = isListSection
        /\ isSkillsSection' = isSkillsSection ]_vars

\* C9: in every mode a line that is Education or Honors & Awards, ends in a
\* 4-digit year or contains Present resets the mode to Neutral and is emitted
\* exactly once, as it stands after trimming: no "* " prefix made canonical,
\* no bullet removed, no splitting into skills.
C9_TerminatorFirst ==
  [][ (AtLine /\ DocTerminator(line)) =>
        /\ ~isListSection' /\ ~isSkillsSection'
        /\ result' = Append(result, line)
        /\ i' = i + 1
        /\ pc' = "loop" ]_vars

\* a terminator with a bullet and a comma was met in a Skills section
C9_Witness ==
  /\ pc = "loop"
  /\ i >= 2
  /\ LineAt(i - 1) = SkillsStr
  /\ LineAt(i) = SalesYear
  /\ result = <<SkillsStr, <<>>, SalesYear>>
  /\ Mode = "Neutral"

\* C10: normalize is total: for every input the line loop and the fragment
\* loop end and a string is returned; normalize("") is "".
C10_Total ==
  /\ (pc # "idle") ~> (pc = "idle")
  /\ [](OutputsFor(<<>>) \subseteq {<<>>})
  /\ [](\A n \in 1..Len(hist) : hist[n].out \in Seq(STRING))

\* the call of the empty string has returned the empty string
C10_Witness ==
  /\ pc = "idle"
  /\ \E n \in 1..Len(hist) : hist[n].in = <<>> /\ hist[n].out = <<>>

\* ------------------------------------------------------------ the documented matcher

\* two strings are equal ignoring case
SameIgnoringCase(a, b) == toLowerCase(a) = toLowerCase(b)

\* a is one of the canonical phrases, ignoring case
Canonical(a) ==
  \E n \in 1..Len(skillPhrases) : SameIgnoringCase(skillPhrases[n], a)

\* some canonical phrase goes on, after a, with a space
WordPrefix(a) ==
  \E n \in 1..Len(skillPhrases) :
    /\ Len(skillPhrases[n]) > Len(a)
    /\ SameIgnoringCase(SubSeq(skillPhrases[n], 1, Len(a)), a)
    /\ skillPhrases[n][Len(a) + 1] = " "

\* the greedy rule flushes the accumulator a
Flushes(a) == Canonical(a) \/ ~WordPrefix(a)

\* the phrases of the greedy rule for the fragments frs: joined[n] is the
\* accumulator once fragment n has been appended
Greedy(frs) ==
  LET joined[n \in 1..Len(frs)] ==
        IF n = 1 \/ Flushes(joined[n - 1])
          THEN frs[n]
          ELSE joined[n - 1] \o <<" ">> \o frs[n]
      ends == SelectSeq([n \in 1..Len(frs) |-> n],
                        LAMBDA n : Flushes(joined[n]) \/ n = Len(frs))
  IN  [m \in 1..Len(ends) |-> joined[ends[m]]]

\* the fragments Strategic, Planning, Sales
C11_Fragments ==
  <<<<"S", "t", "r", "a", "t", "e", "g", "i", "c">>,
    <<"P", "l", "a", "n", "n", "i", "n", "g">>, SalesStr>>

\* C11: the phrases the fragment loop has pushed when it ends are those of the
\* greedy rule (flush on a canonical phrase ignoring case, flush as-is when no
\* canonical phrase starts with accumulator + space, keep otherwise, flush
\* what is left); Strategic, Planning, Sales gives Strategic Planning, Sales;
\* a fragment that is no phrase and no word-prefix, met with an empty
\* accumulator, is pushed alone.
C11_GreedyMatcher ==
  [][ /\ (pc = "skill" /\ pc' = "loop") =>
           /\ normalizedItems' = Greedy(items)
           /\ items = C11_Fragments =>
                normalizedItems' = <<StrategicPlanningStr, SalesStr>>
      /\ (pc = "skill" /\ pc' = "skill" /\ currentSkill = <<>>
            /\ ~Canonical(items[k]) /\ ~WordPrefix(items[k])) =>
           /\ normalizedItems' = Append(normalizedItems, items[k])
           /\ currentSkill' = <<>> ]_vars

\* the fragment loop has ended for Strategic, Planning, Sales
C11_Witness ==
  /\ pc = "loop"
  /\ i >= 2
  /\ LineAt(i) = SplitPhrase
  /\ items = C11_Fragments
  /\ normalizedItems = <<StrategicPlanningStr, SalesStr>>

\* the pieces between the separators of the line l, trimmed, the empty ones left out
RawFragments(l) ==
  LET pieces == SplitSep(l)
  IN  SelectSeq([n \in 1..Len(pieces) |-> trim(pieces[n])],
                LAMBDA f : f # <<>>)

\* the raw fragments Data, Management, &, Analysis, Sales
C12_Fragments ==
  <<<<"D", "a", "t", "a">>,
    <<"M", "a", "n", "a", "g", "e", "m", "e", "n", "t">>,
    <<"&">>,
    <<"A", "n", "a", "l", "y", "s", "i", "s">>,
    SalesStr>>

\* the current line of a Skills section has these raw fragments
C12_AtAmpersandLine ==
  /\ i < Len(lines)
  /\ isSkillsSection
  /\ RawFragments(line) = C12_Fragments

\* C12: for a Skills-section line whose raw fragments are Data, Management,
\* &, Analysis, Sales the fragment loop runs without the & fragment and
\* pushes exactly two phrases, the second of which is Sales.
C12_AmpersandAnchor ==
  [][ /\ (pc = "loop" /\ C12_AtAmpersandLine) =>
           /\ pc' = "skill"
           /\ \A n \in 1..Len(items') : items'[n] # <<"&">>
           /\ Len(items') = Len(C12_Fragments) - 1
      /\ (pc = "skill" /\ pc' = "loop" /\ C12_AtAmpersandLine) =>
           /\ Len(normalizedItems') = 2
           /\ normalizedItems'[2] = SalesStr
           /\ Len(result') = Len(result) + 2 ]_vars

\* the fragment loop has ended for Data, Management, &, Analysis, Sales
C12_Witness ==
  /\ pc = "loop"
  /\ i >= 2
  /\ isSkillsSection
  /\ LineAt(i) = AmpersandLine
  /\ Len(normalizedItems) = 2
  /\ normalizedItems[2] = SalesStr
  /\ result[Len(result)] = BulletSales

\* C13: every call starts with both flags false and an empty result, and
\* every fragment loop with an empty accumulator and phrase list, whatever the
\* calls before left behind; two calls with the same input return the same
\* output.
C13_NoCrossCallState ==
  /\ []((pc = "loop" /\ i = 0) =>
          (~isListSection /\ ~isSkillsSection /\ result = <<>>))
  /\ [][(pc = "loop" /\ pc' = "skill") =>
          (currentSkill' = <<>> /\ normalizedItems' = <<>>)]_vars
  /\ [](\A m, n \in 1..Len(hist) :
          hist[m].in = hist[n].in => hist[m].out = hist[n].out)

\* a second call with the input of a first one that ended inside a Skills
\* section, after a fragment loop, has returned
C13_Witness ==
  /\ pc = "idle"
  /\ Len(hist) = 2
  /\ hist[1].in = hist[2].in
  /\ hist[1].out = hist[2].out
  /\ isSkillsSection
  /\ normalizedItems # <<>>

\* C14: the handling of a line that is no section marker (a skill line with
\* its fragment loop, a bulleted line, a continuation line, a blank line)
\* leaves isListSection and isSkillsSection as they were, from the head of the
\* loop to the next line.
C14_ModeFrame ==
  [][ (pc \in {"loop", "skill"} /\ i < Len(lines) /\ ~DocMarker(line)) =>
        <<isListSection, isSkillsSection>>' = <<isListSection, isSkillsSection>>
    ]_vars

\* the line l matches the collapse pattern: white space, a bullet, white space
MatchesCollapse(l) ==
  \E w \in 0..Len(l) :
    /\ \A q \in 1..w : l[q] \in WhiteSpace
    /\ w + 1 <= Len(l)
    /\ l[w + 1] = Star

\* the list rule is at work on the current line
C15_ListLine ==
  /\ AtLine
  /\ isListSection
  /\ ~IsCategoryHeading(line)
  /\ ~IsTerminator(line)
  /\ ~TakesSkills(line)

\* C15: a line handled by the list rule is logged as an unmatched bullet
\* exactly when it does not match the collapse pattern; a line that does not
\* match is pushed as it is; exactly one line is pushed, logged or not.
C15_UnmatchedLogged ==
  [][ C15_ListLine =>
        /\ (logged' = Append(logged, i + 1)) <=> ~MatchesCollapse(line)
        /\ (logged' # Append(logged, i + 1)) => logged' = logged
        /\ ~MatchesCollapse(line) => result' = Append(result, line)
        /\ Len(result') = Len(result) + 1 ]_vars

\* the string s holds one of the eight bullet glyphs
HasGlyph(s) == \E n \in 1..Len(s) : s[n] \in BulletGlyphs

\* C16: no output of normalize holds a bullet glyph; while a call runs no
\* line it classifies holds one, wherever in the input the glyph stood; a
\* text with glyphs gives the output of the same text written with asterisks.
C16_NoGlyphLeft ==
  /\ \A n \in 1..Len(hist) : ~HasGlyph(hist[n].out)
  /\ pc # "idle" =>
       /\ \A n \in 1..Len(lines) : ~HasGlyph(lines[n])
       /\ \A n \in 1..Len(result) : ~HasGlyph(result[n])
  /\ \A m, n \in 1..Len(hist) :
       hist[n].in = WithStars(hist[m].in) => hist[n].out = hist[m].out

\* a text with a glyph inside a line and one at a line start, and the same
\* text written with asterisks, have both been normalized
C16_Witness ==
  /\ pc = "idle"
  /\ Len(hist) = 2
  /\ hist[1].in = join(<<SkillsStr, MidGlyph, GlyphItemOne>>)
  /\ hist[2].in = WithStars(hist[1].in)
  /\ hist[2].out = hist[1].out

\* C17: whatever the flags are, a line that is empty after trimming pushes
\* exactly one empty line and the loop moves on; so a call never has pushed
\* fewer lines than it has read, and no output has fewer lines than its input.
C17_BlankLineKept ==
  /\ [][(AtLine /\ line = <<>>) =>
          (result' = Append(result, <<>>) /\ i' = i + 1 /\ pc' = "loop")]_vars
  /\ [](pc = "loop" => Len(result) >= i)
  /\ [](\A n \in 1..Len(hist) :
          Len(SplitLines(hist[n].out)) >= Len(SplitLines(hist[n].in)))

\* a line of white space only has been handled in a Skills section, as the
\* third line
C17_Witness ==
  /\ pc = "loop"
  /\ i = 3
  /\ isSkillsSection
  /\ isListSection
  /\ lines[i] = <<" ", "\t">>
  /\ result[Len(result)] = <<>>
  /\ Len(result) = i + 1

\* the strings of seq joined with single spaces
JoinSpaces(seq) ==
  LET glued[n \in 0..Len(seq)] ==
        IF n = 0 THEN <<>>
        ELSE IF n = 1 THEN seq[1]
        ELSE glued[n - 1] \o <<" ">> \o seq[n]
  IN  glued[Len(seq)]

\* C19: when the fragment loop of a Skills line ends, every pushed phrase is
\* non-empty, there are at least one and at most as many phrases as fragments,
\* and the phrases joined with single spaces are the fragments joined with
\* single spaces, letter case as written.
C19_FragmentsConserved ==
  [][ (pc = "skill" /\ pc' = "loop") =>
        /\ \A n \in 1..Len(normalizedItems') : normalizedItems'[n] # <<>>
        /\ Len(normalizedItems') >= 1
        /\ Len(normalizedItems') <= Len(items)
        /\ JoinSpaces(normalizedItems') = JoinSpaces(items) ]_vars

\* the loop has ended for strategic, PLANNING, Zeta, Finance: one phrase of
\* two fragments, one unknown fragment and one left in the accumulator
C19_Witness ==
  /\ pc = "loop"
  /\ i >= 2
  /\ LineAt(i) = LowerPhrase
  /\ Len(items) = 4
  /\ Len(normalizedItems) = 3
  /\ normalizedItems[1] = items[1] \o <<" ">> \o items[2]
  /\ normalizedItems[3] = <<"F", "i", "n", "a", "n", "c", "e">>

\* the text t is what normalizeBullets has returned for the text of the file f
TextOf(t, f) ==
  /\ f # NoFile
  /\ \E n \in 1..Len(hist) : hist[n].in = ExtractedText(f) /\ hist[n].out = t

\* C18: never more than one call of handleConvert is under way; while
\* isProcessing is true the file input and the Convert button are disabled;
\* while a call is under way isProcessing is true, no other call starts and
\* the selected file stays the one the call was started for; a text in
\* plainText is the normalized text of the selected file.
C18_SingleFlight ==
  /\ [](Len(jobs) <= 1)
  /\ [](isProcessing => (~InputEnabled /\ ~ConvertEnabled))
  /\ [](jobs # <<>> => (isProcessing /\ jobs[1].file = file))
  /\ [][jobs # <<>> => (file' = file /\ Len(jobs') <= Len(jobs))]_vars
  /\ [](plainText # <<>> => TextOf(plainText, file))

\* the text of a second file picked after a first conversion is shown
C18_Witness ==
  /\ Len(hist) = 2
  /\ hist[1].in # hist[2].in
  /\ hist[1].out # hist[2].out
  /\ jobs = <<>>
  /\ ~isProcessing
  /\ plainText = hist[2].out
  /\ plainText # <<>>
  /\ TextOf(hist[1].out, CHOOSE f \in Files \ {file} : FileType(f) \in supportedTypes)

\* the call of handleConvert under way ends in this step
C20_Ends == jobs # <<>> /\ jobs' = <<>>

\* the outcome after the step: the normalized text of the call's file, no error
C20_Success ==
  /\ hist # <<>>
  /\ plainText' = hist[Len(hist)].out
  /\ hist[Len(hist)].in = ExtractedText(jobs[1].file)
  /\ error' = <<>>

\* the outcome after the step: a File conversion failed message, no text
C20_Failure ==
  /\ Len(error') = 2
  /\ error'[1] = "File conversion failed: "
  /\ plainText' = <<>>

\* C20: a call of handleConvert started with a file ends, unless the component
\* is unmounted, with isProcessing false again; when it ends on the mounted
\* component, either plainText is the normalized extracted text and error is
\* empty, or error is a File conversion failed message and plainText is empty,
\* never both; handleConvert with no file sets the error and starts nothing;
\* once unmounted, no step changes file, error, plainText or isProcessing.
C20_ConvertEnds ==
  /\ (isProcessing /\ isMounted) ~> (~isProcessing \/ ~isMounted)
  /\ [][(C20_Ends /\ isMounted) =>
          /\ ~isProcessing'
          /\ C20_Success \/ C20_Failure
          /\ ~(C20_Success /\ C20_Failure)]_vars
  /\ [][(last' = "handleConvert" /\ file = NoFile) =>
          /\ error' = <<"Please select a file to convert.">>
          /\ ~isProcessing'
          /\ jobs' = jobs]_vars
  /\ [][~isProcessing /\ isProcessing' => file # NoFile]_vars
  /\ [][~isMounted =>
          UNCHANGED <<file, error, plainText, isProcessing>>]_vars

\* a second call has failed on the mounted component, clearing the text the
\* first one had stored
C20_Witness ==
  /\ isMounted
  /\ ~isProcessing
  /\ jobs = <<>>
  /\ Len(hist) = 1
  /\ hist[1].out # <<>>
  /\ file # NoFile
  /\ Len(error) = 2
  /\ error[1] = "File conversion failed: "
  /\ plainText = <<>>

====
